---- MODULE Spec2Model ----
(***************************************************************************)
(* Model of the learning-assistant repository:                             *)
(*   front end A  src/src/index.ts      (MCP tool server, stdio)            *)
(*   front end B  src/unnamed/part_000  (express relay to a chat API)       *)
(*                                                                         *)
(* JavaScript values are tagged tuples <<kind, payload>>:                   *)
(*   <<"undefined">>  <<"null">>  <<"boolean", b>>  <<"number", n>>         *)
(*   <<"string", s>>  <<"array", seq>>  <<"object", f>>                     *)
(*   <<"jsontext", doc>>   a string whose characters are the JSON           *)
(*                         serialisation of doc                             *)
(* An object's payload is a function from the names of its own properties. *)
(***************************************************************************)
EXTENDS Integers, Sequences, FiniteSets, TLC

VARIABLES
  apc,       \* front end A: position in main()
  aOut,      \* front end A: what main() and its catch wrote with console
  aExit,     \* front end A: the status given to process.exit
  aReq,      \* front end A: the tools/call request being handled
  aResp,     \* front end A: its response
  aGen,      \* front end A: the generator calls made for it
  aMemo,     \* front end A: an earlier request and the response it received
  env,       \* front end B: process.env
  bpc,       \* front end B: position in the start-up script
  exitCode,  \* front end B: the status given to process.exit
  stderr,    \* front end B: lines written by console.error at start-up
  stdout,    \* front end B: lines written by console.log
  MODEL,     \* front end B: const MODEL
  PORT,      \* front end B: const PORT
  reqs,      \* front end B: the POST /api/tool requests in flight
  health     \* front end B: the last answer of GET /api/health

astart == <<apc, aOut, aExit>>
avars == <<apc, aOut, aExit, aReq, aResp, aGen, aMemo>>
bvars == <<env, bpc, exitCode, stderr, stdout, MODEL, PORT, reqs, health>>
vars == <<apc, aOut, aExit, aReq, aResp, aGen, aMemo, env, bpc, exitCode, stderr, stdout, MODEL, PORT, reqs, health>>

(* ------------------------------------------------------------------ *)
(* JavaScript values                                                   *)
(* ------------------------------------------------------------------ *)
Undefined == <<"undefined">>
JNull == <<"null">>
JStr(s) == <<"string", s>>
JNum(n) == <<"number", n>>
JBool(b) == <<"boolean", b>>
JArr(a) == <<"array", a>>
JObj(f) == <<"object", f>>
EmptyObj == [x \in {} |-> x]

(* property read o.f on the payload of an object: undefined when absent *)
Get(o, f) == IF f \in DOMAIN o THEN o[f] ELSE Undefined

(* ToBoolean *)
Truthy(v) ==
  CASE v[1] = "undefined" -> FALSE
    [] v[1] = "null" -> FALSE
    [] v[1] = "boolean" -> v[2]
    [] v[1] = "number" -> v[2] # 0
    [] v[1] = "string" -> v[2] # ""
    [] OTHER -> TRUE

(* a || b *)
Or(a, b) == IF Truthy(a) THEN a ELSE b

(* destructuring default: x = d *)
Default(v, d) == IF v = Undefined THEN d ELSE v

(* String(v) as a template literal interpolates it *)
RECURSIVE JoinStr(_, _)
Interp(v) ==
  CASE v[1] = "string" -> v[2]
    [] v[1] = "number" -> ToString(v[2])
    [] v[1] = "undefined" -> "undefined"
    [] v[1] = "null" -> "null"
    [] v[1] = "boolean" -> IF v[2] THEN "true" ELSE "false"
    [] v[1] = "array" -> JoinStr(v[2], ",")
    [] OTHER -> "[object Object]"

(* Array.prototype.join over an array of strings and numbers *)
JoinStr(a, sep) ==
  IF Len(a) = 0 THEN ""
  ELSE IF Len(a) = 1 THEN Interp(a[1])
  ELSE Interp(a[1]) \o sep \o JoinStr(Tail(a), sep)

(* JSON.stringify: own properties whose value is undefined are left out,   *)
(* undefined array elements become null; the result is a string.           *)
RECURSIVE JSONvalue(_)
JSONvalue(v) ==
  CASE v[1] = "object" ->
         JObj([f \in {g \in DOMAIN v[2] : v[2][g] # Undefined} |-> JSONvalue(v[2][f])])
    [] v[1] = "array" ->
         JArr([i \in 1..Len(v[2]) |->
                 IF v[2][i] = Undefined THEN JNull ELSE JSONvalue(v[2][i])])
    [] OTHER -> v

JSONstringify(v) == IF v = Undefined THEN Undefined ELSE <<"jsontext", JSONvalue(v)>>

(* ------------------------------------------------------------------ *)
(* zod schemas (front end A)                                           *)
(* ------------------------------------------------------------------ *)
ZString == [kind |-> "string", optional |-> FALSE]
ZEnum(S) == [kind |-> "enum", values |-> S, optional |-> FALSE]
ZNumber(lo, hi) == [kind |-> "number", min |-> lo, max |-> hi, optional |-> FALSE]
ZArray(elem, minLen) == [kind |-> "array", elem |-> elem, min |-> minLen, optional |-> FALSE]
ZOptional(d) == [d EXCEPT !.optional = TRUE]

ZodScalarValid(d, v) ==
  CASE d.kind = "string" -> v[1] = "string"
    [] d.kind = "enum" -> v[1] = "string" /\ v[2] \in d.values
    [] d.kind = "number" -> v[1] = "number" /\ v[2] >= d.min /\ v[2] <= d.max
    [] OTHER -> FALSE

ZodValid(d, v) ==
  IF v = Undefined THEN d.optional
  ELSE IF d.kind = "array"
       THEN /\ v[1] = "array"
            /\ Len(v[2]) >= d.min
            /\ \A i \in 1..Len(v[2]) : ZodScalarValid(d.elem, v[2][i])
       ELSE ZodScalarValid(d, v)

(* z.object(shape).safeParse(args) succeeds *)
ZodObjectValid(shape, args) ==
  \A f \in DOMAIN shape : ZodValid(shape[f], Get(args, f))

(* the parsed object: the keys of the shape that the caller supplied *)
ZodParsed(shape, args) ==
  [f \in (DOMAIN shape) \cap (DOMAIN args) |-> args[f]]

ToolNames ==
  <<"explainConcept", "reviewCode", "suggestBestPractice", "compareApproaches",
    "generateLearningPath", "debugHelper", "explainThisCode", "quizMe">>

Levels == {"beginner", "intermediate", "advanced"}
FocusAreas == {"correctness", "performance", "readability", "security", "best-practices"}
CurrentLevels == {"complete-beginner", "some-experience", "intermediate", "advanced"}
GoalLevels == {"basic-understanding", "working-knowledge", "proficient", "expert"}
TimeCommitments == {"1-hour-daily", "2-3-hours-daily", "full-time"}
DetailLevels == {"overview", "detailed", "line-by-line"}
Difficulties == {"easy", "medium", "hard"}
QuestionTypes == {"multiple-choice", "true-false", "code-output", "fill-blank", "mixed"}
MinApproaches == 2
MinQuestionCount == 1
MaxQuestionCount == 10

explainConceptSchema ==
  [concept |-> ZString,
   level |-> ZOptional(ZEnum(Levels)),
   language |-> ZOptional(ZString)]

reviewCodeSchema ==
  [code |-> ZString,
   language |-> ZString,
   context |-> ZOptional(ZString),
   focusAreas |-> ZOptional(ZArray(ZEnum(FocusAreas), 0))]

suggestBestPracticeSchema ==
  [task |-> ZString,
   technology |-> ZOptional(ZString),
   currentApproach |-> ZOptional(ZString)]

compareApproachesSchema ==
  [problem |-> ZString,
   approaches |-> ZArray(ZString, MinApproaches),
   criteria |-> ZOptional(ZArray(ZString, 0))]

generateLearningPathSchema ==
  [topic |-> ZString,
   currentLevel |-> ZEnum(CurrentLevels),
   goalLevel |-> ZEnum(GoalLevels),
   timeCommitment |-> ZOptional(ZEnum(TimeCommitments))]

debugHelperSchema ==
  [error |-> ZString,
   code |-> ZOptional(ZString),
   language |-> ZOptional(ZString),
   context |-> ZOptional(ZString)]

explainThisCodeSchema ==
  [code |-> ZString,
   language |-> ZString,
   detailLevel |-> ZOptional(ZEnum(DetailLevels))]

(* the quizMe schema with the upper bound of questionCount off by one *)
quizMeSchemaMax11 ==
  [topic |-> ZString,
   difficulty |-> ZOptional(ZEnum(Difficulties)),
   questionCount |-> ZOptional(ZNumber(MinQuestionCount, MaxQuestionCount + 1)),
   questionType |-> ZOptional(ZEnum(QuestionTypes))]

quizMeSchema ==
  [topic |-> ZString,
   difficulty |-> ZOptional(ZEnum(Difficulties)),
   questionCount |-> ZOptional(ZNumber(MinQuestionCount, MaxQuestionCount)),
   questionType |-> ZOptional(ZEnum(QuestionTypes))]

ToolSchema(name) ==
  CASE name = "explainConcept" -> explainConceptSchema
    [] name = "reviewCode" -> reviewCodeSchema
    [] name = "suggestBestPractice" -> suggestBestPracticeSchema
    [] name = "compareApproaches" -> compareApproachesSchema
    [] name = "generateLearningPath" -> generateLearningPathSchema
    [] name = "debugHelper" -> debugHelperSchema
    [] name = "explainThisCode" -> explainThisCodeSchema
    [] name = "quizMe" -> quizMeSchema

(* ------------------------------------------------------------------ *)
(* template generators (front end A)                                   *)
(* ------------------------------------------------------------------ *)
(* Array.prototype.includes on the payload of an optional array *)
Includes(arr, v) ==
  IF arr = Undefined THEN FALSE ELSE \E i \in 1..Len(arr[2]) : arr[2][i] = v

(* generateConceptExplanation with null, not undefined, for a missing example *)
generateConceptExplanationNull(concept, level, language) ==
  JObj([concept |-> concept,
        level |-> level,
        language |-> language,
        summary |-> JStr("This is a request to explain the concept of \"" \o Interp(concept)
                         \o "\" at a " \o Interp(level) \o " level"
                         \o (IF Truthy(language)
                             THEN " in the context of " \o Interp(language) ELSE "")
                         \o "."),
        keyPoints |-> JArr(<<JStr("Provide 3-5 key points that explain the core idea"),
                             JStr("Use simple language appropriate for the level"),
                             JStr("Include practical relevance")>>),
        analogy |-> JStr("Provide a real-world analogy to help understand the concept"),
        codeExample |-> IF Truthy(language)
                        THEN JStr("Provide a simple " \o Interp(language)
                                  \o " code example demonstrating the concept")
                        ELSE JNull,
        commonMistakes |-> JArr(<<JStr("List 2-3 common mistakes beginners make with this concept")>>),
        relatedConcepts |-> JArr(<<JStr("List related concepts the learner should explore next")>>),
        practiceExercise |-> JStr("Suggest a simple exercise to practice this concept")])

generateConceptExplanation(concept, level, language) ==
  JObj([concept |-> concept,
        level |-> level,
        language |-> language,
        summary |-> JStr("This is a request to explain the concept of \"" \o Interp(concept)
                         \o "\" at a " \o Interp(level) \o " level"
                         \o (IF Truthy(language)
                             THEN " in the context of " \o Interp(language) ELSE "")
                         \o "."),
        keyPoints |-> JArr(<<JStr("Provide 3-5 key points that explain the core idea"),
                             JStr("Use simple language appropriate for the level"),
                             JStr("Include practical relevance")>>),
        analogy |-> JStr("Provide a real-world analogy to help understand the concept"),
        codeExample |-> IF Truthy(language)
                        THEN JStr("Provide a simple " \o Interp(language)
                                  \o " code example demonstrating the concept")
                        ELSE Undefined,
        commonMistakes |-> JArr(<<JStr("List 2-3 common mistakes beginners make with this concept")>>),
        relatedConcepts |-> JArr(<<JStr("List related concepts the learner should explore next")>>),
        practiceExercise |-> JStr("Suggest a simple exercise to practice this concept")])

generateCodeReview(code, language, context, focusAreas) ==
  JObj([code |-> code,
        language |-> language,
        context |-> context,
        focusAreas |-> focusAreas,
        overallAssessment |-> JStr("Review this " \o Interp(language) \o " code"
                                   \o (IF Truthy(context)
                                       THEN " that is supposed to " \o Interp(context) ELSE "")),
        isCorrect |-> JBool(TRUE),
        strengths |-> JArr(<<JStr("Identify what the code does well")>>),
        improvements |-> JArr(<<JStr("Suggest specific improvements with explanations of why")>>),
        securityConcerns |-> IF Includes(focusAreas, JStr("security"))
                             THEN JArr(<<JStr("Check for security issues")>>) ELSE Undefined,
        performanceNotes |-> IF Includes(focusAreas, JStr("performance"))
                             THEN JArr(<<JStr("Analyze performance implications")>>) ELSE Undefined,
        refactoredCode |-> JStr("Provide improved version of the code if applicable"),
        learningResources |-> JArr(<<JStr("Suggest resources to learn more about the improvements suggested")>>)])

(* generateBestPractices naming its list of anti-patterns pitfalls *)
generateBestPracticesPitfalls(task, technology, currentApproach) ==
  JObj([task |-> task,
        technology |-> technology,
        currentApproach |-> currentApproach,
        practices |-> JArr(<<JObj([practice |-> JStr("Best practice recommendation"),
                                   why |-> JStr("Explanation of why this is important"),
                                   example |-> JStr("Code or implementation example")])>>),
        pitfalls |-> JArr(<<JStr("Common anti-patterns to avoid for this task")>>),
        resources |-> JArr(<<JStr("Links or references to learn more")>>)])

generateBestPractices(task, technology, currentApproach) ==
  JObj([task |-> task,
        technology |-> technology,
        currentApproach |-> currentApproach,
        practices |-> JArr(<<JObj([practice |-> JStr("Best practice recommendation"),
                                   why |-> JStr("Explanation of why this is important"),
                                   example |-> JStr("Code or implementation example")])>>),
        antiPatterns |-> JArr(<<JStr("Common anti-patterns to avoid for this task")>>),
        resources |-> JArr(<<JStr("Links or references to learn more")>>)])

(* generateApproachComparison listing the entries from the last approach  *)
(* to the first                                                           *)
generateApproachComparisonReversed(problem, approaches, criteria) ==
  JObj([problem |-> problem,
        approaches |-> approaches,
        criteria |-> criteria,
        comparison |-> JArr([i \in 1..Len(approaches[2]) |->
                              JObj([approach |-> approaches[2][Len(approaches[2]) + 1 - i],
                                    pros |-> JArr(<<JStr("List advantages of this approach")>>),
                                    cons |-> JArr(<<JStr("List disadvantages of this approach")>>),
                                    bestFor |-> JStr("Describe scenarios where this approach excels"),
                                    complexity |-> JStr("Rate the complexity: low/medium/high")])]),
        recommendation |-> JStr("Provide a recommendation based on common use cases"),
        tradeoffs |-> JStr("Explain the key tradeoffs between approaches")])

generateApproachComparison(problem, approaches, criteria) ==
  JObj([problem |-> problem,
        approaches |-> approaches,
        criteria |-> criteria,
        comparison |-> JArr([i \in 1..Len(approaches[2]) |->
                              JObj([approach |-> approaches[2][i],
                                    pros |-> JArr(<<JStr("List advantages of this approach")>>),
                                    cons |-> JArr(<<JStr("List disadvantages of this approach")>>),
                                    bestFor |-> JStr("Describe scenarios where this approach excels"),
                                    complexity |-> JStr("Rate the complexity: low/medium/high")])]),
        recommendation |-> JStr("Provide a recommendation based on common use cases"),
        tradeoffs |-> JStr("Explain the key tradeoffs between approaches")])

generateLearningPath(topic, currentLevel, goalLevel, timeCommitment) ==
  JObj([topic |-> topic,
        currentLevel |-> currentLevel,
        goalLevel |-> goalLevel,
        timeCommitment |-> timeCommitment,
        estimatedDuration |-> JStr("Calculate based on current/goal levels and time commitment"),
        phases |-> JArr(<<JObj([name |-> JStr("Phase 1: Foundations"),
                                duration |-> JStr("2-4 weeks"),
                                objectives |-> JArr(<<JStr("Learning objectives for this phase")>>),
                                topics |-> JArr(<<JStr("Topics to cover")>>),
                                projects |-> JArr(<<JStr("Hands-on projects to build")>>),
                                resources |-> JArr(<<JStr("Recommended learning resources")>>)])>>),
        milestones |-> JArr(<<JStr("Key milestones to track progress")>>),
        tips |-> JArr(<<JStr("Tips for effective learning")>>)])

generateDebugHelp(error, code, language, context) ==
  JObj([error |-> error,
        code |-> code,
        language |-> language,
        context |-> context,
        errorType |-> JStr("Categorize the type of error"),
        likelyCause |-> JStr("Most likely cause of this error"),
        explanation |-> JStr("Explain what this error means in simple terms"),
        solutions |-> JArr(<<JObj([solution |-> JStr("Step-by-step solution"),
                                   code |-> JStr("Fixed code if applicable"),
                                   explanation |-> JStr("Why this fix works")])>>),
        preventionTips |-> JArr(<<JStr("How to prevent this error in the future")>>),
        relatedErrors |-> JArr(<<JStr("Similar errors the learner might encounter")>>)])

generateCodeExplanation(code, language, detailLevel) ==
  JObj([code |-> code,
        language |-> language,
        detailLevel |-> detailLevel,
        overview |-> JStr("High-level summary of what this code does"),
        breakdown |-> JArr(<<JObj([section |-> JStr("Section name"),
                                   code |-> JStr("Relevant code snippet"),
                                   explanation |-> JStr("What this section does and why")])>>),
        concepts |-> JArr(<<JStr("Programming concepts used in this code")>>),
        flowDiagram |-> IF detailLevel = JStr("detailed")
                        THEN JStr("ASCII diagram of code flow") ELSE Undefined,
        keyTakeaways |-> JArr(<<JStr("Important lessons from this code")>>)])

(* generateQuiz continuing the numbering of the quiz of an earlier       *)
(* invocation, as with a counter kept between invocations                *)
generateQuizCounting(topic, difficulty, questionCount, questionType) ==
  LET seen == IF aMemo.resp.kind = "result" /\ aMemo.req.name = "quizMe"
              THEN Len(aMemo.resp.content[1].text[2][2]["questions"][2])
              ELSE 0
  IN
  JObj([topic |-> topic,
        difficulty |-> difficulty,
        questions |-> JArr([k \in 1..questionCount[2] |->
                             JObj([id |-> JNum(seen + k),
                                   type |-> IF questionType = JStr("mixed")
                                            THEN JStr("varies") ELSE questionType,
                                   question |-> JStr("Question " \o ToString(seen + k)
                                                     \o " about " \o Interp(topic)),
                                   options |-> JArr(<<JStr("Option A"), JStr("Option B"),
                                                      JStr("Option C"), JStr("Option D")>>),
                                   correctAnswer |-> JStr("The correct answer"),
                                   explanation |-> JStr("Why this is the correct answer")])]),
        studyTips |-> JArr(<<JStr("Tips for studying this topic further")>>)])

(* generateQuiz numbering the questions from 0 *)
generateQuizZeroBased(topic, difficulty, questionCount, questionType) ==
  JObj([topic |-> topic,
        difficulty |-> difficulty,
        questions |-> JArr([k \in 1..questionCount[2] |->
                             JObj([id |-> JNum(k - 1),
                                   type |-> IF questionType = JStr("mixed")
                                            THEN JStr("varies") ELSE questionType,
                                   question |-> JStr("Question " \o ToString(k - 1)
                                                     \o " about " \o Interp(topic)),
                                   options |-> JArr(<<JStr("Option A"), JStr("Option B"),
                                                      JStr("Option C"), JStr("Option D")>>),
                                   correctAnswer |-> JStr("The correct answer"),
                                   explanation |-> JStr("Why this is the correct answer")])]),
        studyTips |-> JArr(<<JStr("Tips for studying this topic further")>>)])

generateQuiz(topic, difficulty, questionCount, questionType) ==
  JObj([topic |-> topic,
        difficulty |-> difficulty,
        questions |-> JArr([k \in 1..questionCount[2] |->
                             JObj([id |-> JNum((k - 1) + 1),
                                   type |-> IF questionType = JStr("mixed")
                                            THEN JStr("varies") ELSE questionType,
                                   question |-> JStr("Question " \o ToString((k - 1) + 1)
                                                     \o " about " \o Interp(topic)),
                                   options |-> JArr(<<JStr("Option A"), JStr("Option B"),
                                                      JStr("Option C"), JStr("Option D")>>),
                                   correctAnswer |-> JStr("The correct answer"),
                                   explanation |-> JStr("Why this is the correct answer")])]),
        studyTips |-> JArr(<<JStr("Tips for studying this topic further")>>)])

(* ------------------------------------------------------------------ *)
(* tool callbacks (front end A): destructuring with defaults, then the *)
(* generator, then JSON.stringify into one text content item           *)
(* ------------------------------------------------------------------ *)
ToolResult(template) ==
  [kind |-> "result",
   content |-> <<[type |-> "text", text |-> JSONstringify(template)]>>]

explainConceptArgs(args) ==
  <<Get(args, "concept"), Default(Get(args, "level"), JStr("beginner")), Get(args, "language")>>

reviewCodeArgs(args) ==
  <<Get(args, "code"), Get(args, "language"), Get(args, "context"), Get(args, "focusAreas")>>

suggestBestPracticeArgs(args) ==
  <<Get(args, "task"), Get(args, "technology"), Get(args, "currentApproach")>>

compareApproachesArgs(args) ==
  <<Get(args, "problem"), Get(args, "approaches"), Get(args, "criteria")>>

generateLearningPathArgs(args) ==
  <<Get(args, "topic"), Get(args, "currentLevel"), Get(args, "goalLevel"),
    Get(args, "timeCommitment")>>

debugHelperArgs(args) ==
  <<Get(args, "error"), Get(args, "code"), Get(args, "language"), Get(args, "context")>>

explainThisCodeArgs(args) ==
  <<Get(args, "code"), Get(args, "language"), Default(Get(args, "detailLevel"), JStr("detailed"))>>

(* the quizMe destructuring with another default for questionCount *)
quizMeArgsDefault10(args) ==
  <<Get(args, "topic"),
    Default(Get(args, "difficulty"), JStr("medium")),
    Default(Get(args, "questionCount"), JNum(10)),
    Default(Get(args, "questionType"), JStr("mixed"))>>

quizMeArgs(args) ==
  <<Get(args, "topic"),
    Default(Get(args, "difficulty"), JStr("medium")),
    Default(Get(args, "questionCount"), JNum(5)),
    Default(Get(args, "questionType"), JStr("mixed"))>>

(* the generator call a tool's callback makes: its name and arguments *)
GeneratorCall(name, args) ==
  CASE name = "explainConcept" ->
         [fn |-> "generateConceptExplanation", args |-> explainConceptArgs(args)]
    [] name = "reviewCode" ->
         [fn |-> "generateCodeReview", args |-> reviewCodeArgs(args)]
    [] name = "suggestBestPractice" ->
         [fn |-> "generateBestPractices", args |-> suggestBestPracticeArgs(args)]
    [] name = "compareApproaches" ->
         [fn |-> "generateApproachComparison", args |-> compareApproachesArgs(args)]
    [] name = "generateLearningPath" ->
         [fn |-> "generateLearningPath", args |-> generateLearningPathArgs(args)]
    [] name = "debugHelper" ->
         [fn |-> "generateDebugHelp", args |-> debugHelperArgs(args)]
    [] name = "explainThisCode" ->
         [fn |-> "generateCodeExplanation", args |-> explainThisCodeArgs(args)]
    [] name = "quizMe" ->
         [fn |-> "generateQuiz", args |-> quizMeArgs(args)]

Generate(call) ==
  LET a == call.args IN
  CASE call.fn = "generateConceptExplanation" -> generateConceptExplanation(a[1], a[2], a[3])
    [] call.fn = "generateCodeReview" -> generateCodeReview(a[1], a[2], a[3], a[4])
    [] call.fn = "generateBestPractices" -> generateBestPractices(a[1], a[2], a[3])
    [] call.fn = "generateApproachComparison" -> generateApproachComparison(a[1], a[2], a[3])
    [] call.fn = "generateLearningPath" -> generateLearningPath(a[1], a[2], a[3], a[4])
    [] call.fn = "generateDebugHelp" -> generateDebugHelp(a[1], a[2], a[3], a[4])
    [] call.fn = "generateCodeExplanation" -> generateCodeExplanation(a[1], a[2], a[3])
    [] call.fn = "generateQuiz" -> generateQuiz(a[1], a[2], a[3], a[4])

ToolCallback(name, args) == ToolResult(Generate(GeneratorCall(name, args)))

Registered == {ToolNames[i] : i \in 1..Len(ToolNames)}

(* ------------------------------------------------------------------ *)
(* requests a client can send                                          *)
(* ------------------------------------------------------------------ *)
MaxCountInput == 11
MaxApproachesInput == 3

Opt(f, S) == {EmptyObj} \cup {f :> v : v \in S}
Strs(S) == {JStr(x) : x \in S}
Texts(f) == {JStr(""), JStr(f \o "-text")}

RECURSIVE SeqsUpTo(_, _)
SeqsUpTo(S, n) ==
  IF n = 0 THEN {<<>>}
  ELSE LET shorter == SeqsUpTo(S, n - 1)
       IN shorter \cup {Append(q, x) : q \in {r \in shorter : Len(r) = n - 1}, x \in S}

Arrays(S, n) == {JArr(q) : q \in SeqsUpTo(S, n)}

ParamSets(name) ==
  CASE name = "explainConcept" ->
         {a @@ b @@ c :
            a \in Opt("concept", Texts("concept") \cup {JNum(7)}),
            b \in Opt("level", Strs(Levels \cup {"expert"})),
            c \in Opt("language", Texts("language"))}
    [] name = "reviewCode" ->
         {a @@ b @@ c @@ d :
            a \in Opt("code", Texts("code")),
            b \in Opt("language", Texts("language")),
            c \in Opt("context", Texts("context")),
            d \in Opt("focusAreas",
                      Arrays(Strs({"security", "performance"}), 1)
                        \cup {JArr(<<JStr("security"), JStr("performance")>>),
                              JArr(<<JStr("style")>>)})}
    [] name = "suggestBestPractice" ->
         {a @@ b @@ c :
            a \in Opt("task", Texts("task")),
            b \in Opt("technology", Texts("technology")),
            c \in Opt("currentApproach", Texts("currentApproach"))}
    [] name = "compareApproaches" ->
         {a @@ b @@ c :
            a \in Opt("problem", Texts("problem")),
            b \in Opt("approaches",
                      Arrays(Strs({"REST", "GraphQL"}), MaxApproachesInput)
                        \cup {JArr(<<JStr("REST"), JNum(7)>>)}),
            c \in Opt("criteria", Arrays(Strs({"performance"}), 1))}
    [] name = "generateLearningPath" ->
         {a @@ b @@ c @@ d :
            a \in Opt("topic", Texts("topic")),
            b \in Opt("currentLevel", Strs({"complete-beginner", "intermediate", "guru"})),
            c \in Opt("goalLevel", Strs({"proficient", "expert", "guru"})),
            d \in Opt("timeCommitment", Strs({"full-time", "sometimes"}))}
    [] name = "debugHelper" ->
         {a @@ b @@ c @@ d :
            a \in Opt("error", Texts("error")),
            b \in Opt("code", Texts("code")),
            c \in Opt("language", Texts("language")),
            d \in Opt("context", Texts("context"))}
    [] name = "explainThisCode" ->
         {a @@ b @@ c :
            a \in Opt("code", Texts("code")),
            b \in Opt("language", Texts("language")),
            c \in Opt("detailLevel", Strs(DetailLevels \cup {"verbose"}))}
    [] name = "quizMe" ->
         {a @@ b @@ c @@ d :
            a \in Opt("topic", Texts("topic")),
            b \in Opt("difficulty", Strs(Difficulties \cup {"extreme"})),
            c \in Opt("questionCount",
                      {JNum(n) : n \in 0..MaxCountInput} \cup {JStr("5")}),
            d \in Opt("questionType", Strs(QuestionTypes \cup {"essay"}))}
    [] OTHER -> {EmptyObj, "topic" :> JStr("topic-text")}

RequestNames == Registered \cup {"noSuchTool"}

(* ------------------------------------------------------------------ *)
(* front end A: main() and the catch of its promise                    *)
(* ------------------------------------------------------------------ *)
(* the names in the line main() writes after the banner *)
AvailableTools ==
  <<"explainConcept", "reviewCode", "suggestBestPractice", "compareApproaches",
    "generateLearningPath", "debugHelper", "explainThisCode", "quizMe">>

(* a call of console.error: the stream, the text, the further arguments *)
ConsoleError(text, args) == [stream |-> "stderr", text |-> text, args |-> args]

StartupBanner ==
  <<ConsoleError("Learning Assistant MCP Server started successfully!", <<>>),
    ConsoleError("Available tools: "
                   \o JoinStr([i \in 1..Len(AvailableTools) |-> JStr(AvailableTools[i])], ", "),
                 <<>>)>>

ConnectErrors == {"EPIPE", "Transport already started"}

(* MainConnect writing the banner before it awaits the connect step *)
MainConnectBannerFirst ==
  /\ apc = "main"
  /\ apc' = "connecting"
  /\ aOut' = aOut \o StartupBanner
  /\ UNCHANGED <<aExit, aReq, aResp, aGen, aMemo>>
  /\ UNCHANGED bvars

(* main() up to its await: new StdioServerTransport, server.connect *)
MainConnect ==
  /\ apc = "main"
  /\ apc' = "connecting"
  /\ UNCHANGED <<aOut, aExit, aReq, aResp, aGen, aMemo>>
  /\ UNCHANGED bvars

(* the connect step has completed: main() goes on and writes the banner *)
ConnectResolves ==
  /\ apc = "connecting"
  /\ apc' = "started"
  /\ aOut' = aOut \o StartupBanner
  /\ UNCHANGED <<aExit, aReq, aResp, aGen, aMemo>>
  /\ UNCHANGED bvars

(* the connect step has failed: the await throws, main() rejects, and the *)
(* catch logs the failure and exits                                      *)
ConnectRejects(error) ==
  /\ apc = "connecting"
  /\ apc' = "failed"
  /\ aOut' = Append(aOut, ConsoleError("Failed to start server:", <<error>>))
  /\ aExit' = JNum(1)
  /\ UNCHANGED <<aReq, aResp, aGen, aMemo>>
  /\ UNCHANGED bvars

StartA ==
  \/ MainConnect
  \/ ConnectResolves
  \/ \E error \in ConnectErrors : ConnectRejects(error)

(* ------------------------------------------------------------------ *)
(* front end A: one tools/call request                                 *)
(* ------------------------------------------------------------------ *)
NoRequest == [name |-> "", arguments |-> EmptyObj]
NoResponse == [kind |-> "none"]

(* the tools/call handler: look the tool up, parse the arguments against *)
(* its schema, and only then run its callback                            *)
HandleToolCall(name, args) ==
  IF name \notin Registered
  THEN [resp |-> [kind |-> "error", code |-> "ToolNotFound"], gen |-> <<>>]
  ELSE IF ~ZodObjectValid(ToolSchema(name), args)
       THEN [resp |-> [kind |-> "error", code |-> "InvalidParams"], gen |-> <<>>]
       ELSE LET parsed == ZodParsed(ToolSchema(name), args)
            IN [resp |-> ToolCallback(name, parsed),
                gen |-> <<GeneratorCall(name, parsed)>>]

CallTool(name, args) ==
  /\ apc = "started"
  /\ aResp = NoResponse
  /\ aReq' = [name |-> name, arguments |-> args]
  /\ aResp' = HandleToolCall(name, args).resp
  /\ aGen' = HandleToolCall(name, args).gen
  /\ UNCHANGED aMemo
  /\ UNCHANGED astart
  /\ UNCHANGED bvars

(* the response is written to the transport; nothing of the request stays *)
SendResponse ==
  /\ aResp # NoResponse
  /\ aReq' = NoRequest
  /\ aResp' = NoResponse
  /\ aGen' = <<>>
  /\ UNCHANGED aMemo
  /\ UNCHANGED astart
  /\ UNCHANGED bvars

(* an observer keeps one request together with the response it received, *)
(* to compare it with the responses of later requests                    *)
NoMemo == [req |-> NoRequest, resp |-> NoResponse]

Remember ==
  /\ aResp # NoResponse
  /\ aMemo = NoMemo
  /\ aMemo' = [req |-> aReq, resp |-> aResp]
  /\ UNCHANGED <<aReq, aResp, aGen>>
  /\ UNCHANGED astart
  /\ UNCHANGED bvars

(* ------------------------------------------------------------------ *)
(* prompt generators (front end B): toolPrompts                        *)
(* ------------------------------------------------------------------ *)
explainConceptFormat ==
  "\n"
  \o "\n"
  \o "Provide your response in this JSON format:\n"
  \o "{\n"
  \o "  \"summary\": \"A clear, concise explanation\",\n"
  \o "  \"keyPoints\": [\"Point 1\", \"Point 2\", \"Point 3\"],\n"
  \o "  \"analogy\": \"A real-world analogy\",\n"
  \o "  \"codeExample\": \"A simple code example if applicable\",\n"
  \o "  \"commonMistakes\": [\"Mistake 1\", \"Mistake 2\"],\n"
  \o "  \"relatedConcepts\": [\"Related concept 1\", \"Related concept 2\"],\n"
  \o "  \"practiceExercise\": \"A simple exercise to practice\"\n"
  \o "}"

reviewCodeFormat ==
  "\n"
  \o "\n"
  \o "Provide your response in this JSON format:\n"
  \o "{\n"
  \o "  \"overallAssessment\": \"Brief overall assessment\",\n"
  \o "  \"isCorrect\": true/false,\n"
  \o "  \"strengths\": [\"Strength 1\", \"Strength 2\"],\n"
  \o "  \"improvements\": [\"Improvement 1 with explanation\", \"Improvement 2\"],\n"
  \o "  \"securityConcerns\": [\"Security issue if any\"],\n"
  \o "  \"performanceNotes\": [\"Performance note if any\"],\n"
  \o "  \"refactoredCode\": \"Improved version of the code\",\n"
  \o "  \"learningResources\": [\"Resource 1\", \"Resource 2\"]\n"
  \o "}"

suggestBestPracticeFormat ==
  "\n"
  \o "\n"
  \o "Provide your response in this JSON format:\n"
  \o "{\n"
  \o "  \"practices\": [\n"
  \o "    {\n"
  \o "      \"practice\": \"Best practice name\",\n"
  \o "      \"why\": \"Explanation of importance\",\n"
  \o "      \"example\": \"Code or implementation example\"\n"
  \o "    }\n"
  \o "  ],\n"
  \o "  \"antiPatterns\": [\"Anti-pattern 1\", \"Anti-pattern 2\"],\n"
  \o "  \"resources\": [\"Learning resource 1\", \"Learning resource 2\"]\n"
  \o "}"

compareApproachesFormat ==
  "\n"
  \o "\n"
  \o "Provide your response in this JSON format:\n"
  \o "{\n"
  \o "  \"comparison\": [\n"
  \o "    {\n"
  \o "      \"approach\": \"Approach name\",\n"
  \o "      \"pros\": [\"Pro 1\", \"Pro 2\"],\n"
  \o "      \"cons\": [\"Con 1\", \"Con 2\"],\n"
  \o "      \"bestFor\": \"Best use case scenario\",\n"
  \o "      \"complexity\": \"low/medium/high\"\n"
  \o "    }\n"
  \o "  ],\n"
  \o "  \"recommendation\": \"Your recommendation\",\n"
  \o "  \"tradeoffs\": \"Key tradeoffs explanation\"\n"
  \o "}"

generateLearningPathFormat ==
  "\n"
  \o "\n"
  \o "Provide your response in this JSON format:\n"
  \o "{\n"
  \o "  \"estimatedDuration\": \"Estimated time to complete\",\n"
  \o "  \"phases\": [\n"
  \o "    {\n"
  \o "      \"name\": \"Phase name\",\n"
  \o "      \"duration\": \"Time for this phase\",\n"
  \o "      \"objectives\": [\"Objective 1\", \"Objective 2\"],\n"
  \o "      \"topics\": [\"Topic 1\", \"Topic 2\"],\n"
  \o "      \"projects\": [\"Project 1\", \"Project 2\"],\n"
  \o "      \"resources\": [\"Resource 1\", \"Resource 2\"]\n"
  \o "    }\n"
  \o "  ],\n"
  \o "  \"milestones\": [\"Milestone 1\", \"Milestone 2\"],\n"
  \o "  \"tips\": [\"Tip 1\", \"Tip 2\"]\n"
  \o "}"

debugHelperFormat ==
  "\n"
  \o "\n"
  \o "Provide your response in this JSON format:\n"
  \o "{\n"
  \o "  \"errorType\": \"Type of error\",\n"
  \o "  \"likelyCause\": \"Most likely cause\",\n"
  \o "  \"explanation\": \"Simple explanation of what went wrong\",\n"
  \o "  \"solutions\": [\n"
  \o "    {\n"
  \o "      \"solution\": \"Step-by-step solution\",\n"
  \o "      \"code\": \"Fixed code if applicable\",\n"
  \o "      \"explanation\": \"Why this fix works\"\n"
  \o "    }\n"
  \o "  ],\n"
  \o "  \"preventionTips\": [\"Prevention tip 1\", \"Prevention tip 2\"],\n"
  \o "  \"relatedErrors\": [\"Similar error 1\", \"Similar error 2\"]\n"
  \o "}"

explainThisCodeFormat ==
  "\n"
  \o "\n"
  \o "Provide your response in this JSON format:\n"
  \o "{\n"
  \o "  \"overview\": \"High-level summary\",\n"
  \o "  \"breakdown\": [\n"
  \o "    {\n"
  \o "      \"section\": \"Section name\",\n"
  \o "      \"code\": \"Relevant code snippet\",\n"
  \o "      \"explanation\": \"What this does and why\"\n"
  \o "    }\n"
  \o "  ],\n"
  \o "  \"concepts\": [\"Concept used 1\", \"Concept used 2\"],\n"
  \o "  \"keyTakeaways\": [\"Takeaway 1\", \"Takeaway 2\"]\n"
  \o "}"

quizMeFormat ==
  "\n"
  \o "\n"
  \o "Provide your response in this JSON format:\n"
  \o "{\n"
  \o "  \"questions\": [\n"
  \o "    {\n"
  \o "      \"id\": 1,\n"
  \o "      \"type\": \"multiple-choice/true-false/code-output/fill-blank\",\n"
  \o "      \"question\": \"The question text\",\n"
  \o "      \"options\": [\"Option A\", \"Option B\", \"Option C\", \"Option D\"],\n"
  \o "      \"correctAnswer\": \"The correct answer\",\n"
  \o "      \"explanation\": \"Why this is correct\"\n"
  \o "    }\n"
  \o "  ],\n"
  \o "  \"studyTips\": [\"Study tip 1\", \"Study tip 2\"]\n"
  \o "}"

(* the code fence of three backquotes; a TLA+ string cannot hold a       *)
(* backquote, so three single quotes stand for it                       *)
Fence == "'''"

(* v?.length *)
OptLength(v) ==
  CASE v[1] = "array" -> JNum(Len(v[2]))
    [] v[1] = "string" -> JNum(Len(v[2]))
    [] OTHER -> Undefined

(* v.join(', ') of an array *)
Join(v) == JoinStr(v[2], ", ")

toolPrompts_explainConcept(concept, level, language) ==
  "You are a programming teacher. Explain the concept of \"" \o Interp(concept)
  \o "\" at a " \o Interp(level) \o " level"
  \o (IF Truthy(language) THEN " using " \o Interp(language) \o " examples" ELSE "")
  \o "." \o explainConceptFormat

toolPrompts_reviewCode(code, language, context, focusAreas) ==
  "You are a senior code reviewer. Review this " \o Interp(language) \o " code"
  \o (IF Truthy(context) THEN " that is supposed to " \o Interp(context) ELSE "")
  \o ".\n"
  \o (IF Truthy(OptLength(focusAreas)) THEN "Focus on: " \o Join(focusAreas) ELSE "")
  \o "\n\nCode to review:\n" \o Fence \o Interp(language) \o "\n" \o Interp(code)
  \o "\n" \o Fence
  \o reviewCodeFormat

toolPrompts_suggestBestPractice(task, technology, currentApproach) ==
  "You are a software architecture expert. Suggest best practices for \"" \o Interp(task)
  \o "\"" \o (IF Truthy(technology) THEN " using " \o Interp(technology) ELSE "")
  \o ".\n"
  \o (IF Truthy(currentApproach) THEN "Current approach: " \o Interp(currentApproach) ELSE "")
  \o suggestBestPracticeFormat

toolPrompts_compareApproaches(problem, approaches, criteria) ==
  "You are a technical architect. Compare these approaches to solve: \"" \o Interp(problem)
  \o "\"\nApproaches: " \o Join(approaches) \o "\n"
  \o (IF Truthy(OptLength(criteria)) THEN "Criteria: " \o Join(criteria) ELSE "")
  \o compareApproachesFormat

toolPrompts_generateLearningPath(topic, currentLevel, goalLevel, timeCommitment) ==
  "You are a learning coach. Create a learning path for \"" \o Interp(topic) \o "\".\n"
  \o "Current level: " \o Interp(currentLevel) \o "\n"
  \o "Goal level: " \o Interp(goalLevel) \o "\n"
  \o (IF Truthy(timeCommitment) THEN "Time commitment: " \o Interp(timeCommitment) ELSE "")
  \o generateLearningPathFormat

toolPrompts_debugHelper(error, code, language, context) ==
  "You are a debugging expert. Help debug this error: \"" \o Interp(error) \o "\"\n"
  \o (IF Truthy(language) THEN "Language: " \o Interp(language) ELSE "") \o "\n"
  \o (IF Truthy(context) THEN "Context: " \o Interp(context) ELSE "") \o "\n"
  \o (IF Truthy(code) THEN "Code:\n" \o Fence \o "\n" \o Interp(code) \o "\n" \o Fence ELSE "")
  \o debugHelperFormat

toolPrompts_explainThisCode(code, language, detailLevel) ==
  "You are a code explainer. Explain this " \o Interp(language) \o " code at "
  \o Interp(detailLevel) \o " level:\n\n" \o Fence \o Interp(language) \o "\n"
  \o Interp(code) \o "\n" \o Fence \o explainThisCodeFormat

toolPrompts_quizMe(topic, difficulty, questionCount, questionType) ==
  "You are a quiz master. Generate " \o Interp(questionCount) \o " " \o Interp(difficulty)
  \o " " \o Interp(questionType) \o " questions about \"" \o Interp(topic) \o "\"."
  \o quizMeFormat

(* the field names of the JSON shape example of each prompt: <<f>> for a   *)
(* field of the document, <<f, g>> for field g of the entries of field f    *)
ShapeFields(name) ==
  CASE name = "explainConcept" ->
         {<<"summary">>, <<"keyPoints">>, <<"analogy">>, <<"codeExample">>,
          <<"commonMistakes">>, <<"relatedConcepts">>, <<"practiceExercise">>}
    [] name = "reviewCode" ->
         {<<"overallAssessment">>, <<"isCorrect">>, <<"strengths">>, <<"improvements">>,
          <<"securityConcerns">>, <<"performanceNotes">>, <<"refactoredCode">>,
          <<"learningResources">>}
    [] name = "suggestBestPractice" ->
         {<<"practices">>, <<"practices", "practice">>, <<"practices", "why">>,
          <<"practices", "example">>, <<"antiPatterns">>, <<"resources">>}
    [] name = "compareApproaches" ->
         {<<"comparison">>, <<"comparison", "approach">>, <<"comparison", "pros">>,
          <<"comparison", "cons">>, <<"comparison", "bestFor">>,
          <<"comparison", "complexity">>, <<"recommendation">>, <<"tradeoffs">>}
    [] name = "generateLearningPath" ->
         {<<"estimatedDuration">>, <<"phases">>, <<"phases", "name">>,
          <<"phases", "duration">>, <<"phases", "objectives">>, <<"phases", "topics">>,
          <<"phases", "projects">>, <<"phases", "resources">>, <<"milestones">>, <<"tips">>}
    [] name = "debugHelper" ->
         {<<"errorType">>, <<"likelyCause">>, <<"explanation">>, <<"solutions">>,
          <<"solutions", "solution">>, <<"solutions", "code">>,
          <<"solutions", "explanation">>, <<"preventionTips">>, <<"relatedErrors">>}
    [] name = "explainThisCode" ->
         {<<"overview">>, <<"breakdown">>, <<"breakdown", "section">>,
          <<"breakdown", "code">>, <<"breakdown", "explanation">>, <<"concepts">>,
          <<"keyTakeaways">>}
    [] name = "quizMe" ->
         {<<"questions">>, <<"questions", "id">>, <<"questions", "type">>,
          <<"questions", "question">>, <<"questions", "options">>,
          <<"questions", "correctAnswer">>, <<"questions", "explanation">>,
          <<"studyTips">>}

(* ------------------------------------------------------------------ *)
(* front end B: the POST /api/tool handler                             *)
(* ------------------------------------------------------------------ *)
MaxReqs == 1
Slots == 1..MaxReqs

(* the requests in flight where their interleaving is examined *)
MaxConcReqs == 2
ConcSlots == 1..MaxConcReqs

IdleSlot ==
  [pc |-> "idle", body |-> EmptyObj, gens |-> <<>>, args |-> <<>>, calls |-> 0,
   upstream |-> Undefined,
   outcome |-> [kind |-> "none"], status |-> 0, json |-> Undefined, sent |-> 0,
   logged |-> FALSE]

(* JSON.parse: the document of a JSON text; a SyntaxError for undefined    *)
(* and for a string that is no JSON text (ok = FALSE)                      *)
JSONparse(text) ==
  CASE text[1] = "jsontext" -> [ok |-> TRUE, value |-> text[2]]
    [] text[1] = "null" -> [ok |-> TRUE, value |-> JNull]
    [] OTHER -> [ok |-> FALSE, value |-> Undefined]

(* the case labels of the switch of the handler *)
SwitchCases ==
  {"explainConcept", "reviewCode", "suggestBestPractice", "compareApproaches",
   "generateLearningPath", "debugHelper", "explainThisCode", "quizMe"}

(* the keys of the toolPrompts table *)
ToolPromptKeys ==
  {"explainConcept", "reviewCode", "suggestBestPractice", "compareApproaches",
   "generateLearningPath", "debugHelper", "explainThisCode", "quizMe"}

(* SwitchArgs with 10 as the fallback of questionCount *)
SwitchArgsCount10(tool, params) ==
  LET P(f) == Get(params, f) IN
  CASE tool = "explainConcept" ->
         <<P("concept"), Or(P("level"), JStr("beginner")), P("language")>>
    [] tool = "reviewCode" -> <<P("code"), P("language"), P("context"), P("focusAreas")>>
    [] tool = "suggestBestPractice" -> <<P("task"), P("technology"), P("currentApproach")>>
    [] tool = "compareApproaches" -> <<P("problem"), P("approaches"), P("criteria")>>
    [] tool = "generateLearningPath" ->
         <<P("topic"), P("currentLevel"), P("goalLevel"), P("timeCommitment")>>
    [] tool = "debugHelper" -> <<P("error"), P("code"), P("language"), P("context")>>
    [] tool = "explainThisCode" ->
         <<P("code"), P("language"), Or(P("detailLevel"), JStr("detailed"))>>
    [] tool = "quizMe" ->
         <<P("topic"), Or(P("difficulty"), JStr("medium")),
           Or(P("questionCount"), JNum(10)), Or(P("questionType"), JStr("mixed"))>>

(* the arguments each case of the switch passes to its prompt generator *)
SwitchArgs(tool, params) ==
  LET P(f) == Get(params, f) IN
  CASE tool = "explainConcept" ->
         <<P("concept"), Or(P("level"), JStr("beginner")), P("language")>>
    [] tool = "reviewCode" -> <<P("code"), P("language"), P("context"), P("focusAreas")>>
    [] tool = "suggestBestPractice" -> <<P("task"), P("technology"), P("currentApproach")>>
    [] tool = "compareApproaches" -> <<P("problem"), P("approaches"), P("criteria")>>
    [] tool = "generateLearningPath" ->
         <<P("topic"), P("currentLevel"), P("goalLevel"), P("timeCommitment")>>
    [] tool = "debugHelper" -> <<P("error"), P("code"), P("language"), P("context")>>
    [] tool = "explainThisCode" ->
         <<P("code"), P("language"), Or(P("detailLevel"), JStr("detailed"))>>
    [] tool = "quizMe" ->
         <<P("topic"), Or(P("difficulty"), JStr("medium")),
           Or(P("questionCount"), JNum(5)), Or(P("questionType"), JStr("mixed"))>>

(* toolPrompts[tool](...args) *)
ToolPrompt(tool, a) ==
  CASE tool = "explainConcept" -> toolPrompts_explainConcept(a[1], a[2], a[3])
    [] tool = "reviewCode" -> toolPrompts_reviewCode(a[1], a[2], a[3], a[4])
    [] tool = "suggestBestPractice" -> toolPrompts_suggestBestPractice(a[1], a[2], a[3])
    [] tool = "compareApproaches" -> toolPrompts_compareApproaches(a[1], a[2], a[3])
    [] tool = "generateLearningPath" -> toolPrompts_generateLearningPath(a[1], a[2], a[3], a[4])
    [] tool = "debugHelper" -> toolPrompts_debugHelper(a[1], a[2], a[3], a[4])
    [] tool = "explainThisCode" -> toolPrompts_explainThisCode(a[1], a[2], a[3])
    [] tool = "quizMe" -> toolPrompts_quizMe(a[1], a[2], a[3], a[4])

(* a case of the switch: the prompt, or the exception thrown while the     *)
(* arguments of the generator are read or the generator runs               *)
BuildPrompt(tool, params) ==
  IF params[1] # "object"
  THEN [ok |-> FALSE, gens |-> <<>>, args |-> <<>>,
        error |-> JStr("Cannot read properties of undefined")]
  ELSE IF tool \notin ToolPromptKeys
  THEN [ok |-> FALSE, gens |-> <<>>, args |-> SwitchArgs(tool, params[2]),
        error |-> JStr("toolPrompts[tool] is not a function")]
  ELSE IF tool = "compareApproaches" /\ Get(params[2], "approaches")[1] # "array"
  THEN [ok |-> FALSE, gens |-> <<tool>>, args |-> SwitchArgs(tool, params[2]),
        error |-> JStr("Cannot read properties of undefined (reading 'join')")]
  ELSE [ok |-> TRUE, gens |-> <<tool>>, args |-> SwitchArgs(tool, params[2]),
        prompt |-> ToolPrompt(tool, SwitchArgs(tool, params[2]))]

(* CompletionRequest naming the default model whatever MODEL holds *)
CompletionRequestDefaultModel(systemPrompt, model) ==
  JObj([messages |->
          JArr(<<JObj([role |-> JStr("system"), content |-> JStr(systemPrompt)]),
                 JObj([role |-> JStr("user"),
                       content |-> JStr("Generate the response in the specified JSON format. "
                                        \o "Only respond with valid JSON, no additional text.")])>>),
        model |-> JStr("llama-3.3-70b-versatile"),
        temperature |-> JStr("0.7"),
        max_tokens |-> JNum(4096),
        response_format |-> JObj([type |-> JStr("json_object")])])

(* the argument of groq.chat.completions.create *)
CompletionRequest(systemPrompt, model) ==
  JObj([messages |->
          JArr(<<JObj([role |-> JStr("system"), content |-> JStr(systemPrompt)]),
                 JObj([role |-> JStr("user"),
                       content |-> JStr("Generate the response in the specified JSON format. "
                                        \o "Only respond with valid JSON, no additional text.")])>>),
        model |-> model,
        temperature |-> JStr("0.7"),
        max_tokens |-> JNum(4096),
        response_format |-> JObj([type |-> JStr("json_object")])])

(* the catch block: log, then 500 with the message of the error *)
HandlerCatch(slot, message) ==
  [slot EXCEPT !.pc = "responded",
               !.status = 500,
               !.sent = @ + 1,
               !.json = JSONvalue(JObj([success |-> JBool(FALSE), error |-> message])),
               !.logged = TRUE]

(* HandlerStart whose default case sends 400 and goes on to the completion *)
(* call instead of returning                                              *)
HandlerStartNoReturn(body, model) ==
  LET tool == Get(body, "tool")
      params == Get(body, "params")
      slot == [IdleSlot EXCEPT !.body = body]
  IN IF ~(tool[1] = "string" /\ tool[2] \in SwitchCases)
     THEN [slot EXCEPT !.pc = "awaiting",
                       !.status = 400,
                       !.sent = @ + 1,
                       !.calls = 1,
                       !.upstream = CompletionRequest("undefined", model),
                       !.json = JSONvalue(JObj([error |-> JStr("Unknown tool")]))]
     ELSE LET built == BuildPrompt(tool[2], params)
          IN IF ~built.ok
             THEN HandlerCatch([slot EXCEPT !.gens = built.gens, !.args = built.args],
                               built.error)
             ELSE [slot EXCEPT !.pc = "awaiting",
                               !.gens = built.gens,
                               !.args = built.args,
                               !.calls = 1,
                               !.upstream = CompletionRequest(built.prompt, model)]

(* from the entry of the handler to its first suspension or response *)
HandlerStart(body, model) ==
  LET tool == Get(body, "tool")
      params == Get(body, "params")
      slot == [IdleSlot EXCEPT !.body = body]
  IN IF ~(tool[1] = "string" /\ tool[2] \in SwitchCases)
     THEN [slot EXCEPT !.pc = "responded",
                       !.status = 400,
                       !.sent = @ + 1,
                       !.json = JSONvalue(JObj([error |-> JStr("Unknown tool")]))]
     ELSE LET built == BuildPrompt(tool[2], params)
          IN IF ~built.ok
             THEN HandlerCatch([slot EXCEPT !.gens = built.gens, !.args = built.args],
                               built.error)
             ELSE [slot EXCEPT !.pc = "awaiting",
                               !.gens = built.gens,
                               !.args = built.args,
                               !.calls = 1,
                               !.upstream = CompletionRequest(built.prompt, model)]

(* completion.choices[0]?.message?.content *)
ReplyContent(completion) ==
  LET choices == completion["choices"][2]
  IN IF Len(choices) = 0 THEN Undefined
     ELSE IF choices[1][1] # "object" THEN Undefined
     ELSE LET message == Get(choices[1][2], "message")
          IN IF message[1] # "object" THEN Undefined ELSE Get(message[2], "content")

(* ParseReply relaying the reply text without parsing it *)
ParseReplyUnparsed(content) == JObj([raw |-> content])

(* try { result = JSON.parse(content) } catch { result = { raw: content } } *)
ParseReply(content) ==
  IF JSONparse(content).ok THEN JSONparse(content).value ELSE JObj([raw |-> content])

(* HandlerResume failing the request when the reply is no JSON text *)
HandlerResumeStrict(slot, completion) ==
  IF Get(completion, "choices")[1] # "array"
  THEN HandlerCatch(slot, JStr("Cannot read properties of undefined (reading '0')"))
  ELSE IF ~JSONparse(ReplyContent(completion)).ok
  THEN HandlerCatch(slot, JStr("Unexpected token in JSON"))
  ELSE [slot EXCEPT !.pc = "responded",
                    !.status = 200,
                    !.sent = @ + 1,
                    !.json = JSONvalue(JObj([success |-> JBool(TRUE),
                                             result |-> ParseReply(ReplyContent(completion)),
                                             usage |-> Get(completion, "usage")]))]

(* HandlerResume taking the usage from a variable the handlers share: the  *)
(* usage of a request that has already been answered, when there is one    *)
HandlerResumeShared(slot, completion) ==
  LET answered == {j \in DOMAIN reqs : reqs[j].pc = "responded" /\ reqs[j].status = 200}
      usage == IF answered = {} THEN Get(completion, "usage")
               ELSE reqs[CHOOSE j \in answered : TRUE].json[2]["usage"]
  IN IF Get(completion, "choices")[1] # "array"
     THEN HandlerCatch(slot, JStr("Cannot read properties of undefined (reading '0')"))
     ELSE [slot EXCEPT !.pc = "responded",
                       !.status = 200,
                       !.sent = @ + 1,
                       !.json = JSONvalue(JObj([success |-> JBool(TRUE),
                                                result |-> ParseReply(ReplyContent(completion)),
                                                usage |-> usage]))]

(* the handler after the completion call has resolved *)
HandlerResume(slot, completion) ==
  IF Get(completion, "choices")[1] # "array"
  THEN HandlerCatch(slot, JStr("Cannot read properties of undefined (reading '0')"))
  ELSE [slot EXCEPT !.pc = "responded",
                    !.status = 200,
                    !.sent = @ + 1,
                    !.json = JSONvalue(JObj([success |-> JBool(TRUE),
                                             result |-> ParseReply(ReplyContent(completion)),
                                             usage |-> Get(completion, "usage")]))]

(* HandlerRejected issuing the completion call a second time *)
HandlerRejectedRetry(slot, error) ==
  IF slot.calls < 2
  THEN [slot EXCEPT !.pc = "awaiting", !.calls = @ + 1]
  ELSE HandlerCatch(slot, Get(error, "message"))

(* the handler after the completion call has rejected: the await throws    *)
(* into the catch block                                                     *)
HandlerRejected(slot, error) == HandlerCatch(slot, Get(error, "message"))

(* ------------------------------------------------------------------ *)
(* front end B: environment, request bodies and upstream outcomes      *)
(* ------------------------------------------------------------------ *)
Envs ==
  {k @@ m @@ p :
     k \in Opt("GROQ_API_KEY", {JStr(""), JStr("gsk-key")}),
     m \in Opt("GROQ_MODEL", {JStr(""), JStr("llama-3.1-8b-instant")}),
     p \in Opt("PORT", {JStr("8080")})}

Body(tool, params) == [tool |-> JStr(tool), params |-> JObj(params)]

Bodies ==
  { EmptyObj,
    Body("noSuchTool", [topic |-> JStr("closures")]),
    [tool |-> JStr("quizMe")],
    Body("quizMe", [topic |-> JStr("closures"), questionCount |-> JNum(3)]),
    Body("quizMe", [topic |-> JStr("closures"), questionCount |-> JNum(11)]),
    Body("quizMe", [topic |-> JStr("closures"), questionCount |-> JNum(0)]),
    Body("quizMe", [topic |-> JStr("closures")]),
    Body("compareApproaches",
         [problem |-> JStr("API design"), approaches |-> JArr(<<JStr("REST"), JStr("GraphQL")>>)]),
    Body("compareApproaches",
         [problem |-> JStr("API design"), approaches |-> JArr(<<JStr("REST")>>)]),
    Body("compareApproaches", [problem |-> JStr("API design")]),
    Body("explainConcept", [concept |-> JStr("closures")]),
    Body("explainConcept", [concept |-> JStr("closures"), level |-> JStr("expert")]),
    Body("explainConcept", [language |-> JStr("JavaScript")]),
    Body("reviewCode",
         [code |-> JStr("x = 1"), language |-> JStr("Python"),
          focusAreas |-> JArr(<<JStr("security")>>)]),
    Body("suggestBestPractice", [task |-> JStr("error handling")]),
    Body("generateLearningPath",
         [topic |-> JStr("React"), currentLevel |-> JStr("intermediate"),
          goalLevel |-> JStr("expert")]),
    Body("debugHelper", [error |-> JStr("TypeError"), code |-> JStr("x.y")]),
    Body("explainThisCode", [code |-> JStr("x = 1"), language |-> JStr("Python")]) }

(* a reply that is a JSON text with three questions *)
QuizReply ==
  <<"jsontext",
    JObj([questions |-> JArr([i \in 1..3 |-> JObj([id |-> JNum(i)])]),
          studyTips |-> JArr(<<JStr("Practice")>>)])>>

ReplyChoices ==
  { JArr(<<JObj([message |-> JObj([role |-> JStr("assistant"), content |-> QuizReply])])>>),
    JArr(<<JObj([message |-> JObj([role |-> JStr("assistant"),
                                   content |-> JStr("Sure! Here are your questions:")])])>>),
    JArr(<<JObj([message |-> JObj([role |-> JStr("assistant"), content |-> JStr("")])])>>),
    JArr(<<>>) }

Usages ==
  { JObj([total_tokens |-> JNum(120)]), JObj([total_tokens |-> JNum(45)]) }

Completions == {[choices |-> c, usage |-> u] : c \in ReplyChoices, u \in Usages}

UpstreamErrors ==
  { [message |-> JStr("Connection error.")],
    [message |-> JStr("401 Invalid API Key")],
    [message |-> JStr("429 Rate limit reached")] }

(* ------------------------------------------------------------------ *)
(* front end B: start-up script and request handling                   *)
(* ------------------------------------------------------------------ *)
(* StartupCheck that logs the diagnostic and goes on *)
StartupCheckNoExit(e) ==
  IF ~Truthy(Get(e, "GROQ_API_KEY"))
  THEN [pc |-> "keyChecked",
        err |-> <<"ERROR: GROQ_API_KEY environment variable is required",
                  "Please set it in your .env file or environment variables">>,
        code |-> Undefined]
  ELSE [pc |-> "keyChecked", err |-> <<>>, code |-> Undefined]

(* if (!process.env.GROQ_API_KEY) { console.error ...; process.exit(1) } *)
StartupCheck(e) ==
  IF ~Truthy(Get(e, "GROQ_API_KEY"))
  THEN [pc |-> "exited",
        err |-> <<"ERROR: GROQ_API_KEY environment variable is required",
                  "Please set it in your .env file or environment variables">>,
        code |-> JNum(1)]
  ELSE [pc |-> "keyChecked", err |-> <<>>, code |-> Undefined]

CheckKey ==
  /\ bpc = "boot"
  /\ bpc' = StartupCheck(env).pc
  /\ stderr' = stderr \o StartupCheck(env).err
  /\ exitCode' = StartupCheck(env).code
  /\ UNCHANGED <<env, stdout, MODEL, PORT, reqs, health>>
  /\ UNCHANGED avars

InitClient ==
  /\ bpc = "keyChecked"
  /\ MODEL' = Or(Get(env, "GROQ_MODEL"), JStr("llama-3.3-70b-versatile"))
  /\ stdout' = Append(stdout, "Using Groq model: " \o Interp(MODEL'))
  /\ bpc' = "ready"
  /\ UNCHANGED <<env, exitCode, stderr, PORT, reqs, health>>
  /\ UNCHANGED avars

Listen ==
  /\ bpc = "ready"
  /\ PORT' = Or(Get(env, "PORT"), JNum(3456))
  /\ stdout' = Append(stdout, "Learning Assistant Demo running at http://localhost:"
                                \o Interp(PORT'))
  /\ bpc' = "listening"
  /\ UNCHANGED <<env, exitCode, stderr, MODEL, reqs, health>>
  /\ UNCHANGED avars

PostTool(i, body) ==
  /\ bpc = "listening"
  /\ reqs[i].pc = "idle"
  /\ reqs' = [reqs EXCEPT ![i] = HandlerStart(body, MODEL)]
  /\ UNCHANGED <<env, bpc, exitCode, stderr, stdout, MODEL, PORT, health>>
  /\ UNCHANGED avars

CompletionResolves(i, completion) ==
  /\ reqs[i].pc = "awaiting"
  /\ reqs' = [reqs EXCEPT ![i] =
                HandlerResume([reqs[i] EXCEPT !.outcome =
                                 [kind |-> "resolved", completion |-> completion]],
                              completion)]
  /\ UNCHANGED <<env, bpc, exitCode, stderr, stdout, MODEL, PORT, health>>
  /\ UNCHANGED avars

CompletionRejects(i, error) ==
  /\ reqs[i].pc = "awaiting"
  /\ reqs' = [reqs EXCEPT ![i] =
                HandlerRejected([reqs[i] EXCEPT !.outcome =
                                   [kind |-> "rejected", error |-> error]],
                                error)]
  /\ UNCHANGED <<env, bpc, exitCode, stderr, stdout, MODEL, PORT, health>>
  /\ UNCHANGED avars

(* app.get('/api/health') *)
GetHealth ==
  /\ bpc = "listening"
  /\ health' = JSONvalue(JObj([status |-> JStr("ok"), model |-> MODEL]))
  /\ UNCHANGED <<env, bpc, exitCode, stderr, stdout, MODEL, PORT, reqs>>
  /\ UNCHANGED avars

(* the response has been written; the request is over *)
ResponseSent(i) ==
  /\ reqs[i].pc = "responded"
  /\ reqs' = [reqs EXCEPT ![i] = IdleSlot]
  /\ UNCHANGED <<env, bpc, exitCode, stderr, stdout, MODEL, PORT, health>>
  /\ UNCHANGED avars

(* ------------------------------------------------------------------ *)
(* specifications                                                      *)
(* ------------------------------------------------------------------ *)
IdleA ==
  /\ apc = "main"
  /\ aOut = <<>>
  /\ aExit = Undefined
  /\ aReq = NoRequest
  /\ aResp = NoResponse
  /\ aGen = <<>>
  /\ aMemo = NoMemo

BootBSlots(e, S) ==
  /\ env = e
  /\ bpc = "boot"
  /\ exitCode = Undefined
  /\ stderr = <<>>
  /\ stdout = <<>>
  /\ MODEL = Undefined
  /\ PORT = Undefined
  /\ reqs = [i \in S |-> IdleSlot]
  /\ health = Undefined

BootB(e) == BootBSlots(e, Slots)

InitA == IdleA /\ BootB(EmptyObj)

NextA ==
  \/ StartA
  \/ \E name \in RequestNames : \E args \in ParamSets(name) : CallTool(name, args)
  \/ SendResponse

SpecA == InitA /\ [][NextA]_vars

(* front end A with the observer, over the requests the schemas accept   *)
(* whose texts are not empty                                             *)
ValidParamSets(name) ==
  {args \in ParamSets(name) :
     /\ ZodObjectValid(ToolSchema(name), args)
     /\ \A f \in DOMAIN args : args[f] # JStr("")}

NextAMemo ==
  \/ StartA
  \/ \E name \in Registered : \E args \in ValidParamSets(name) : CallTool(name, args)
  \/ Remember
  \/ SendResponse

SpecAMemo == InitA /\ [][NextAMemo]_vars

InitB == IdleA /\ \E e \in Envs : BootB(e)

NextB ==
  \/ CheckKey
  \/ InitClient
  \/ Listen
  \/ \E i \in Slots : \E body \in Bodies : PostTool(i, body)
  \/ \E i \in Slots : \E completion \in Completions : CompletionResolves(i, completion)
  \/ \E i \in Slots : \E error \in UpstreamErrors : CompletionRejects(i, error)
  \/ \E i \in Slots : ResponseSent(i)
  \/ GetHealth

SpecB == InitB /\ [][NextB]_vars

(* the start-up script is run top to bottom by the runtime: each of its    *)
(* steps is taken once it is reached                                       *)
SpecBFair ==
  SpecB /\ WF_vars(CheckKey) /\ WF_vars(InitClient) /\ WF_vars(Listen)

(* the environments with an API key and no PORT *)
ServingEnvs == {e \in Envs : Truthy(Get(e, "GROQ_API_KEY")) /\ "PORT" \notin DOMAIN e}

ConcBodies ==
  { Body("noSuchTool", [topic |-> JStr("closures")]),
    [tool |-> JStr("quizMe")],
    Body("quizMe", [topic |-> JStr("closures"), questionCount |-> JNum(3)]),
    Body("explainConcept", [concept |-> JStr("closures")]),
    Body("compareApproaches",
         [problem |-> JStr("API design"), approaches |-> JArr(<<JStr("REST"), JStr("GraphQL")>>)]) }

ConcCompletions ==
  {c \in Completions :
     \/ c.usage = JObj([total_tokens |-> JNum(120)]) /\ ReplyContent(c) = QuizReply
     \/ c.usage = JObj([total_tokens |-> JNum(45)]) /\ ReplyContent(c)[1] = "string"}

ConcErrors ==
  {e \in UpstreamErrors : e.message # JStr("401 Invalid API Key")}

(* front end B with several requests in flight: the handler invocations   *)
(* interleave at the await of the completion call                         *)
InitBConc == IdleA /\ \E e \in ServingEnvs : BootBSlots(e, ConcSlots)

NextBConc ==
  \/ CheckKey
  \/ InitClient
  \/ Listen
  \/ \E i \in ConcSlots : \E body \in ConcBodies : PostTool(i, body)
  \/ \E i \in ConcSlots : \E completion \in ConcCompletions : CompletionResolves(i, completion)
  \/ \E i \in ConcSlots : \E error \in ConcErrors : CompletionRejects(i, error)
  \/ \E i \in ConcSlots : ResponseSent(i)

SpecBConc == InitBConc /\ [][NextBConc]_vars

(* the completion call of a request in flight settles: the promise the    *)
(* handler awaits resolves or rejects                                     *)
Settles(i) ==
  \/ \E completion \in Completions : CompletionResolves(i, completion)
  \/ \E error \in UpstreamErrors : CompletionRejects(i, error)

InitBLive == IdleA /\ \E e \in ServingEnvs : BootB(e)

(* the start-up script runs top to bottom and every completion call issued *)
(* settles                                                                 *)
SpecBLive ==
  /\ InitBLive /\ [][NextB]_vars
  /\ WF_vars(CheckKey) /\ WF_vars(InitClient) /\ WF_vars(Listen)
  /\ \A i \in Slots : WF_vars(Settles(i))

Init == IdleA /\ \E e \in Envs : BootB(e)

Next == NextA \/ NextB

Spec == Init /\ [][Next]_vars

(* ------------------------------------------------------------------ *)
(* properties of front end A                                           *)
(* ------------------------------------------------------------------ *)
AReplied == aResp.kind = "result"
(* the JSON document carried by the text item of the response *)
ADoc == aResp.content[1].text[2][2]
AArg(f) == Get(aReq.arguments, f)
ASupplied(f) == f \in DOMAIN aReq.arguments
IsIntIn(v, lo, hi) == v[1] = "number" /\ v[2] \in lo..hi

(* C1: a quizMe call whose questionCount is an integer in 1..10 returns a   *)
(* template with exactly questionCount questions, with ids 1..questionCount *)
(* in that order.                                                           *)
C1_QuizCount ==
  (aReq.name = "quizMe" /\ IsIntIn(AArg("questionCount"), 1, 10))
    => /\ ZodObjectValid(quizMeSchema, aReq.arguments) => AReplied
       /\ AReplied =>
            /\ "questions" \in DOMAIN ADoc
            /\ Len(ADoc["questions"][2]) = AArg("questionCount")[2]
            /\ \A i \in 1..Len(ADoc["questions"][2]) :
                 ADoc["questions"][2][i][2]["id"] = JNum(i)

C1_Witness ==
  /\ aReq.name = "quizMe"
  /\ AArg("questionCount") = JNum(10)
  /\ AReplied
  /\ Len(ADoc["questions"][2]) = 10
  /\ ADoc["questions"][2][10][2]["id"] = JNum(10)

(* C7: compareApproaches with fewer than two approaches, and quizMe with a  *)
(* questionCount below 1 or above 10, is rejected by the schema, and no     *)
(* generator is invoked for it.                                             *)
C7_Case ==
  \/ /\ aReq.name = "compareApproaches"
     /\ AArg("approaches")[1] = "array"
     /\ Len(AArg("approaches")[2]) < 2
  \/ /\ aReq.name = "quizMe"
     /\ AArg("questionCount")[1] = "number"
     /\ (AArg("questionCount")[2] < 1 \/ AArg("questionCount")[2] > 10)

C7_Rejected ==
  C7_Case => (aResp = [kind |-> "error", code |-> "InvalidParams"] /\ aGen = <<>>)

C7_Witness ==
  /\ aReq.name = "quizMe"
  /\ AArg("topic") = JStr("topic-text")
  /\ AArg("questionCount") = JNum(11)
  /\ ~ASupplied("difficulty") /\ ~ASupplied("questionType")
  /\ aResp.kind = "error"
  /\ aGen = <<>>

(* C8: explainConcept without level answers as with level = "beginner";    *)
(* quizMe without difficulty, questionCount and/or questionType answers as  *)
(* with the omitted ones set to "medium", 5 and "mixed".                    *)
QuizDefaults ==
  [difficulty |-> JStr("medium"), questionCount |-> JNum(5), questionType |-> JStr("mixed")]

C8_Defaulting ==
  /\ (aReq.name = "explainConcept" /\ ~ASupplied("level"))
       => aResp = HandleToolCall("explainConcept",
                                 aReq.arguments @@ [level |-> JStr("beginner")]).resp
  /\ (aReq.name = "quizMe"
        /\ (~ASupplied("difficulty") \/ ~ASupplied("questionCount")
              \/ ~ASupplied("questionType")))
       => aResp = HandleToolCall("quizMe", aReq.arguments @@ QuizDefaults).resp

C8_Witness ==
  /\ aReq.name = "quizMe"
  /\ DOMAIN aReq.arguments = {"topic"}
  /\ AReplied
  /\ Len(ADoc["questions"][2]) = 5
  /\ ADoc["difficulty"] = JStr("medium")

(* C10: the serialised template holds every supplied required parameter     *)
(* value, and a field whose content comes from an optional parameter that   *)
(* has no default is absent (not null) unless that parameter was supplied.  *)
Required(name) == {f \in DOMAIN ToolSchema(name) : ~ToolSchema(name)[f].optional}

(* optional parameters without a default, each with the template fields    *)
(* whose content comes from it                                              *)
DerivedFields(name) ==
  CASE name = "explainConcept" ->
         {<<"language", "language">>, <<"language", "codeExample">>}
    [] name = "reviewCode" ->
         {<<"context", "context">>, <<"focusAreas", "focusAreas">>,
          <<"focusAreas", "securityConcerns">>, <<"focusAreas", "performanceNotes">>}
    [] name = "suggestBestPractice" ->
         {<<"technology", "technology">>, <<"currentApproach", "currentApproach">>}
    [] name = "compareApproaches" -> {<<"criteria", "criteria">>}
    [] name = "generateLearningPath" -> {<<"timeCommitment", "timeCommitment">>}
    [] name = "debugHelper" ->
         {<<"code", "code">>, <<"language", "language">>, <<"context", "context">>}
    [] OTHER -> {}

C10_TemplateContents ==
  AReplied =>
    /\ \A f \in Required(aReq.name) : \E g \in DOMAIN ADoc : ADoc[g] = AArg(f)
    /\ \A pf \in DerivedFields(aReq.name) :
         ~ASupplied(pf[1]) => pf[2] \notin DOMAIN ADoc
    /\ \A g \in DOMAIN ADoc : ADoc[g] # JNull

C10_Witness ==
  /\ aReq.name = "explainConcept"
  /\ AReplied
  /\ AArg("concept") = JStr("concept-text")
  /\ ~ASupplied("language")
  /\ ADoc["concept"] = JStr("concept-text")
  /\ "codeExample" \notin DOMAIN ADoc
  /\ "language" \notin DOMAIN ADoc

DocFields(doc) ==
  {<<f>> : f \in DOMAIN doc}
    \cup UNION {UNION {{<<f, g>> : g \in DOMAIN doc[f][2][i][2]} :
                         i \in {j \in 1..Len(doc[f][2]) : doc[f][2][j][1] = "object"}} :
                  f \in {h \in DOMAIN doc : doc[h][1] = "array"}}

ConditionalFields == {<<"codeExample">>, <<"securityConcerns">>, <<"performanceNotes">>}

C15_StartupOrder ==
  /\ \A k \in 1..Len(aOut) : aOut[k].stream = "stderr"
  /\ apc \in {"main", "connecting"} => (aOut = <<>> /\ aExit = Undefined)
  /\ apc = "started" =>
        /\ Len(aOut) = 2
        /\ aOut[1].text = "Learning Assistant MCP Server started successfully!"
        /\ aOut[2].text = "Available tools: explainConcept, reviewCode, "
                             \o "suggestBestPractice, compareApproaches, "
                             \o "generateLearningPath, debugHelper, explainThisCode, quizMe"
        /\ {AvailableTools[i] : i \in 1..Len(AvailableTools)} = Registered
        /\ Len(AvailableTools) = 8 /\ Cardinality(Registered) = 8
        /\ aExit = Undefined
  /\ apc = "failed" =>
        /\ Len(aOut) = 1
        /\ aOut[1].text = "Failed to start server:"
        /\ aOut[1].args # <<>>
        /\ aExit = JNum(1)
        /\ aResp = NoResponse
  /\ aResp # NoResponse => apc = "started"

C15_Witness ==
  /\ apc = "started"
  /\ aOut = StartupBanner
  /\ AReplied
  /\ aReq.name = "explainThisCode"

(* ------------------------------------------------------------------ *)
(* properties of front end B                                           *)
(* ------------------------------------------------------------------ *)
BTool(i) == Get(reqs[i].body, "tool")
BParams(i) == Get(reqs[i].body, "params")
BKnownTool(i) == BTool(i)[1] = "string" /\ BTool(i)[2] \in Registered
BResolved(i) == reqs[i].outcome.kind = "resolved"
BRejected(i) == reqs[i].outcome.kind = "rejected"
(* the reply text of the completion a request received, if it has one *)
BHasText(i) == BResolved(i) /\ Len(reqs[i].outcome.completion.choices[2]) > 0
BText(i) == reqs[i].outcome.completion.choices[2][1][2]["message"][2]["content"]
BUsage(i) == reqs[i].outcome.completion.usage

(* C2: a known operation whose completion call succeeds with a JSON reply   *)
(* is answered 200 {success: true, result, usage}, result being the parsed  *)
(* reply and usage the provider's usage.                                    *)
C2_SuccessRelay ==
  \A i \in Slots :
    (BKnownTool(i) /\ BHasText(i) /\ BText(i)[1] = "jsontext")
      => /\ reqs[i].pc = "responded"
         /\ reqs[i].status = 200
         /\ reqs[i].json = JObj([success |-> JBool(TRUE),
                                 result |-> BText(i)[2],
                                 usage |-> BUsage(i)])

C2_Witness ==
  \E i \in Slots :
    /\ reqs[i].body = Body("quizMe", [topic |-> JStr("closures"), questionCount |-> JNum(3)])
    /\ BHasText(i) /\ BText(i) = QuizReply
    /\ reqs[i].status = 200
    /\ reqs[i].json[2]["success"] = JBool(TRUE)
    /\ Len(reqs[i].json[2]["result"][2]["questions"][2]) = 3

(* C3: when the completion call succeeds with a reply text that is no JSON, *)
(* the request is answered 200 {success: true, result: {raw: text}, usage}, *)
(* never {success: false}.                                                  *)
C3_RawFallback ==
  \A i \in Slots :
    (BKnownTool(i) /\ BHasText(i) /\ BText(i)[1] = "string")
      => /\ reqs[i].pc = "responded"
         /\ reqs[i].status = 200
         /\ reqs[i].json = JObj([success |-> JBool(TRUE),
                                 result |-> JObj([raw |-> BText(i)]),
                                 usage |-> BUsage(i)])

C3_Witness ==
  \E i \in Slots :
    /\ BHasText(i) /\ BText(i) = JStr("Sure! Here are your questions:")
    /\ reqs[i].status = 200
    /\ reqs[i].json[2]["result"] = JObj([raw |-> JStr("Sure! Here are your questions:")])

(* C4: when the completion call fails, the request is answered 500          *)
(* {success: false, error: the provider's message}, and no request ever     *)
(* issues more than one completion call.                                    *)
C4_UpstreamFailure ==
  \A i \in Slots :
    /\ reqs[i].calls <= 1
    /\ BRejected(i)
         => /\ reqs[i].pc = "responded"
            /\ reqs[i].status = 500
            /\ reqs[i].json = JObj([success |-> JBool(FALSE),
                                    error |-> reqs[i].outcome.error.message])
            /\ reqs[i].calls = 1

C4_Witness ==
  \E i \in Slots :
    /\ BRejected(i)
    /\ reqs[i].outcome.error.message = JStr("429 Rate limit reached")
    /\ reqs[i].status = 500
    /\ reqs[i].calls = 1

(* C5: a request whose tool name is not in the catalog is answered 400 with *)
(* a body {success: false, error: message}; no prompt generator runs and no *)
(* completion call is issued.                                               *)
BUnknownTool(i) ==
  reqs[i].pc # "idle" /\ BTool(i)[1] = "string" /\ BTool(i)[2] \notin Registered

C5_UnknownTool ==
  \A i \in Slots :
    BUnknownTool(i)
      => /\ reqs[i].pc = "responded"
         /\ reqs[i].status = 400
         /\ DOMAIN reqs[i].json[2] = {"success", "error"}
         /\ reqs[i].json[2]["success"] = JBool(FALSE)
         /\ reqs[i].json[2]["error"][1] = "string"
         /\ reqs[i].gens = <<>>
         /\ reqs[i].calls = 0

(* C6: a request naming a known operation whose parameters violate the      *)
(* operation's schema runs no prompt generator and issues no completion     *)
(* call.                                                                    *)
BInvalidParams(i) ==
  /\ reqs[i].pc # "idle"
  /\ BKnownTool(i)
  /\ BParams(i)[1] = "object"
  /\ ~ZodObjectValid(ToolSchema(BTool(i)[2]), BParams(i)[2])

C6_InvalidNeverGenerated ==
  \A i \in Slots :
    BInvalidParams(i) => (reqs[i].gens = <<>> /\ reqs[i].calls = 0)

(* C9: with the API key absent (or empty) the process writes the diagnostic *)
(* and exits with status 1 at the key check; it never reaches the listen    *)
(* step and never serves a request.                                         *)
KeyAbsent == "GROQ_API_KEY" \notin DOMAIN env \/ env["GROQ_API_KEY"] = JStr("")

C9_NoListen ==
  KeyAbsent
    => /\ bpc \in {"boot", "exited"}
       /\ bpc = "exited" => (exitCode = JNum(1) /\ Len(stderr) > 0)
       /\ PORT = Undefined
       /\ \A i \in Slots : reqs[i] = IdleSlot

C9_ExitBeforeListen ==
  /\ []C9_NoListen
  /\ KeyAbsent ~> (bpc = "exited" /\ exitCode = JNum(1))

C9_Witness ==
  /\ "GROQ_API_KEY" \notin DOMAIN env
  /\ bpc = "exited"
  /\ exitCode = JNum(1)
  /\ stderr[1] = "ERROR: GROQ_API_KEY environment variable is required"
  /\ PORT = Undefined

(* C13: with several requests in flight, interleaved in any way at the     *)
(* completion call, the status and body a request receives are those of    *)
(* its own tool, params and upstream outcome: its completion call carries  *)
(* its own prompt, its response its own result and usage or its own error; *)
(* and a step of a handler changes the state of its own request only.      *)
C13_OwnResponse ==
  \A i \in DOMAIN reqs :
    LET r == reqs[i] IN
    /\ r.pc = "awaiting" =>
          /\ BKnownTool(i)
          /\ r.upstream = CompletionRequest(BuildPrompt(BTool(i)[2], BParams(i)).prompt, MODEL)
    /\ r.pc = "responded" =>
          /\ BUnknownTool(i) =>
                (r.status = 400 /\ r.json = JObj([error |-> JStr("Unknown tool")]))
          /\ (BHasText(i) /\ BText(i)[1] = "jsontext") =>
                /\ r.status = 200
                /\ r.json = JObj([success |-> JBool(TRUE), result |-> BText(i)[2],
                                  usage |-> BUsage(i)])
          /\ (BHasText(i) /\ BText(i)[1] = "string") =>
                /\ r.status = 200
                /\ r.json = JObj([success |-> JBool(TRUE),
                                  result |-> JObj([raw |-> BText(i)]),
                                  usage |-> BUsage(i)])
          /\ BRejected(i) =>
                /\ r.status = 500
                /\ r.json = JObj([success |-> JBool(FALSE),
                                  error |-> r.outcome.error.message])
          /\ (BKnownTool(i) /\ r.outcome.kind = "none") =>
                (r.status = 500 /\ r.json[2]["success"] = JBool(FALSE) /\ r.calls = 0)

C13_OwnSlotOnly ==
  (reqs' # reqs) =>
    /\ \E i \in DOMAIN reqs : \A j \in DOMAIN reqs \ {i} : reqs'[j] = reqs[j]
    /\ UNCHANGED <<env, bpc, exitCode, stderr, stdout, MODEL, PORT>>

C13_Independent == []C13_OwnResponse /\ [][C13_OwnSlotOnly]_vars

(* two requests answered side by side: one with its own result and usage,  *)
(* the other with the message of its own upstream failure                  *)
C13_Witness ==
  \E i, j \in DOMAIN reqs :
    /\ i # j
    /\ reqs[i].pc = "responded" /\ reqs[j].pc = "responded"
    /\ BTool(i) = JStr("quizMe") /\ BHasText(i) /\ BText(i) = QuizReply
    /\ reqs[i].json[2]["usage"] = JObj([total_tokens |-> JNum(120)])
    /\ BTool(j) = JStr("explainConcept") /\ BRejected(j)
    /\ reqs[j].json[2]["error"] = JStr("429 Rate limit reached")

(* C14: the names front end A registers are the names front end B         *)
(* dispatches on and the keys of its prompt table; and for a request that  *)
(* omits level, detailLevel, difficulty, questionCount or questionType,    *)
(* front end B passes to its prompt generator the value front end A passes *)
(* to its template generator: beginner, detailed, medium, 5, mixed.        *)
DefaultedParams(name) ==
  CASE name = "explainConcept" -> {<<"level", 2, JStr("beginner")>>}
    [] name = "explainThisCode" -> {<<"detailLevel", 3, JStr("detailed")>>}
    [] name = "quizMe" -> {<<"difficulty", 2, JStr("medium")>>,
                           <<"questionCount", 3, JNum(5)>>,
                           <<"questionType", 4, JStr("mixed")>>}
    [] OTHER -> {}

C14_SameCatalog ==
  /\ Registered = SwitchCases
  /\ SwitchCases = ToolPromptKeys
  /\ \A i \in DOMAIN reqs :
       (reqs[i].pc # "idle" /\ BKnownTool(i) /\ BParams(i)[1] = "object")
         => \A d \in DefaultedParams(BTool(i)[2]) :
              d[1] \notin DOMAIN BParams(i)[2]
                => /\ reqs[i].args[d[2]] = GeneratorCall(BTool(i)[2], BParams(i)[2]).args[d[2]]
                   /\ reqs[i].args[d[2]] = d[3]

C14_Witness ==
  \E i \in DOMAIN reqs :
    /\ reqs[i].body = Body("quizMe", [topic |-> JStr("closures")])
    /\ reqs[i].pc = "awaiting"
    /\ reqs[i].args = <<JStr("closures"), JStr("medium"), JNum(5), JStr("mixed")>>
    /\ reqs[i].args = quizMeArgs([topic |-> JStr("closures")])

(* C16: the model identifier is fixed at start-up, to the value of         *)
(* GROQ_MODEL when the environment has a non-empty one and to              *)
(* llama-3.3-70b-versatile otherwise, and never changes afterwards; every   *)
(* answer of GET /api/health is {status: "ok", model} with that identifier *)
(* and every completion call names it, whatever was handled before.        *)
ConfiguredModel ==
  IF "GROQ_MODEL" \in DOMAIN env /\ env["GROQ_MODEL"] # JStr("")
  THEN env["GROQ_MODEL"]
  ELSE JStr("llama-3.3-70b-versatile")

C16_ModelInUse ==
  /\ bpc \in {"ready", "listening"} => MODEL = ConfiguredModel
  /\ health # Undefined =>
        health = JObj([status |-> JStr("ok"), model |-> ConfiguredModel])
  /\ \A i \in DOMAIN reqs :
        reqs[i].calls > 0 => reqs[i].upstream[2]["model"] = ConfiguredModel

C16_ModelFixed == (MODEL # Undefined) => (MODEL' = MODEL /\ env' = env)

C16_ModelConsistent == []C16_ModelInUse /\ [][C16_ModelFixed]_vars

(* with GROQ_MODEL set: the health endpoint has answered with it, and a    *)
(* completion call in flight names the same model                          *)
C16_Witness ==
  /\ Get(env, "GROQ_MODEL") = JStr("llama-3.1-8b-instant")
  /\ health = JObj([status |-> JStr("ok"), model |-> JStr("llama-3.1-8b-instant")])
  /\ \E i \in DOMAIN reqs :
       /\ reqs[i].pc = "awaiting"
       /\ reqs[i].upstream[2]["model"] = JStr("llama-3.1-8b-instant")

(* C17: every POST /api/tool request is answered exactly once: the handler *)
(* never sends a second response, a request is answered at once or waits   *)
(* for its completion call, and, the call settling, it is then answered;   *)
(* the answer is 400 (tool not in the switch), 200 {success: true, ...} or *)
(* 500 {success: false, ...}; an exception thrown while the prompt is built *)
(* is answered 500 and no completion call is issued.                       *)
BPromptThrows(i) ==
  /\ reqs[i].pc # "idle"
  /\ BKnownTool(i)
  /\ \/ BParams(i)[1] # "object"
     \/ BTool(i)[2] = "compareApproaches" /\ Get(BParams(i)[2], "approaches")[1] # "array"

C17_OneResponse ==
  \A i \in DOMAIN reqs :
    LET r == reqs[i] IN
    /\ r.sent <= 1
    /\ r.pc \in {"idle", "awaiting"} => r.sent = 0
    /\ r.pc = "awaiting" => r.calls = 1
    /\ r.pc = "responded" =>
          /\ r.sent = 1
          /\ r.status \in {400, 200, 500}
          /\ r.status = 400 <=> ~BKnownTool(i)
          /\ r.status = 400 => r.calls = 0
          /\ r.status = 200 => (BResolved(i) /\ r.json[2]["success"] = JBool(TRUE))
          /\ r.status = 500 => r.json[2]["success"] = JBool(FALSE)
    /\ BPromptThrows(i) => (r.pc = "responded" /\ r.status = 500 /\ r.calls = 0)

C17_AnsweredOnce ==
  /\ []C17_OneResponse
  /\ \A i \in Slots : (reqs[i].pc = "awaiting") ~> (reqs[i].pc = "responded" /\ reqs[i].sent = 1)

(* compareApproaches without approaches: the prompt generator throws, the  *)
(* one response is 500 and no call was issued                              *)
C17_Witness ==
  \E i \in DOMAIN reqs :
    /\ reqs[i].body = Body("compareApproaches", [problem |-> JStr("API design")])
    /\ reqs[i].pc = "responded"
    /\ reqs[i].sent = 1
    /\ reqs[i].status = 500
    /\ reqs[i].calls = 0

(* C18: for every compareApproaches request the schema accepts, the       *)
(* comparison list of the template has one entry per supplied approach, in *)
(* the order of the approaches parameter, entry i naming approaches[i];    *)
(* and the approaches field of the template is the list as supplied.       *)
C18_ComparisonEntries ==
  (aResp # NoResponse /\ aReq.name = "compareApproaches"
     /\ ZodObjectValid(compareApproachesSchema, aReq.arguments))
    => /\ AReplied
       /\ ADoc["comparison"][1] = "array"
       /\ Len(ADoc["comparison"][2]) = Len(AArg("approaches")[2])
       /\ \A i \in 1..Len(AArg("approaches")[2]) :
            ADoc["comparison"][2][i][2]["approach"] = AArg("approaches")[2][i]
       /\ ADoc["approaches"] = AArg("approaches")

C18_Witness ==
  /\ aReq.name = "compareApproaches"
  /\ AArg("approaches") = JArr(<<JStr("GraphQL"), JStr("REST"), JStr("GraphQL")>>)
  /\ AReplied
  /\ Len(ADoc["comparison"][2]) = 3
  /\ ADoc["comparison"][2][1][2]["approach"] = JStr("GraphQL")
  /\ ADoc["comparison"][2][2][2]["approach"] = JStr("REST")

====
